---- MODULE Spec2Model ----
(***************************************************************************)
(* The movie recommender (src/app.py): the similarity lookup, the loading  *)
(* of the similarity table, the metadata fetch and the session of main.    *)
(*                                                                         *)
(* df is the similarity table read by pd.read_csv(output, index_col=0):    *)
(* column headers, row (index) labels and the cells.  A title is a Python  *)
(* str, modelled as the sequence of its characters, so that strip(),       *)
(* lower() and the `in` substring test are computed and not assumed.  A    *)
(* label of the table is a str or, in the row index, an int.               *)
(***************************************************************************)
EXTENDS Integers, Sequences, FiniteSets, TLC

VARIABLES cached, df, sortBuild, call, earlier, names, fetch, load, session

vars == <<cached, df, sortBuild, call, earlier, names, fetch, load, session>>

(***************************************************************************)
(* Bounds of the model and constants of the program.                       *)
(***************************************************************************)
MaxScore == 2          \* scores range over 0..MaxScore
RecursionLimit == 4    \* frames of a recursive function before RecursionError
MaxLater == 2          \* calls counted after the one that is kept for comparison
MaxPage == 3           \* pages asked of fetch_movie_data: 1..MaxPage
MaxPerPage == 20       \* slider values kept: min_value, min_value + step, .. up to this
max_failures == 5      \* fetch_movie_data: max_failures = 5
SliderMin == 5         \* slider(min_value=5, ...)
SliderStep == 5        \* slider(..., step=5)
SliderDefault == 20    \* slider(..., value=20, ...)
HeadN == 6             \* .head(6)
TopK == 5              \* [...][:5]

(***************************************************************************)
(* Python str operations.                                                  *)
(***************************************************************************)
Upper == <<"A", "B", "C", "D", "E", "F", "G", "Z">>
LowerOf == <<"a", "b", "c", "d", "e", "f", "g", "z">>

\* str.lower() on one character
LowerChar(c) ==
    IF \E i \in 1..Len(Upper) : Upper[i] = c
    THEN LowerOf[CHOOSE i \in 1..Len(Upper) : Upper[i] = c]
    ELSE c

\* str.lower()
Lower(s) == [i \in 1..Len(s) |-> LowerChar(s[i])]

IsSpace(c) == c = " "

RECURSIVE LStrip(_)
LStrip(s) == IF s # <<>> /\ IsSpace(Head(s)) THEN LStrip(Tail(s)) ELSE s

RECURSIVE RStrip(_)
RStrip(s) ==
    IF s # <<>> /\ IsSpace(s[Len(s)]) THEN RStrip(SubSeq(s, 1, Len(s) - 1)) ELSE s

\* str.strip()
Strip(s) == RStrip(LStrip(s))

\* `sub in s` on two str
Contains(sub, s) ==
    \E i \in 0..(Len(s) - Len(sub)) : SubSeq(s, i + 1, i + Len(sub)) = sub

(***************************************************************************)
(* Labels: a str label, or an int label of a numeric row index (held by    *)
(* its decimal digits, which is what str(idx) gives).                      *)
(***************************************************************************)
Str(s) == [num |-> FALSE, s |-> s]
Num(digits) == [num |-> TRUE, s |-> digits]

\* str(name)
PyStr(x) == x.s

\* truth value of a title: `not movie_title` is true of "" and of the int 0
Truthy(x) == IF x.num THEN x.s # <<"0">> ELSE x.s # <<>>

\* where the first element of a list comprehension comes from: the first
\* position at which its condition holds
FirstTrue(flags) ==
    CHOOSE i \in 1..Len(flags) : flags[i] /\ \A j \in 1..(i - 1) : ~flags[j]

(***************************************************************************)
(* pandas operations.  A Series is its index labels and its values, in     *)
(* the order of the frame; frame marks the DataFrame that .loc returns     *)
(* for a label carried by several rows.                                    *)
(***************************************************************************)
NoSeries == [frame |-> FALSE, index |-> <<>>, values |-> <<>>]

\* None where a frame is expected: download_csv's return None, df before it
\* is bound
NoneFrame == [columns |-> <<>>, index |-> <<>>, cells |-> <<>>]

\* df is None
IsNone(d) == Len(d.columns) = 0 /\ Len(d.index) = 0

\* movie_title in df.columns
InColumns(d, t) == \E j \in 1..Len(d.columns) : d.columns[j] = Str(t)

\* movie_title in df.index (a str is never in an int index)
InIndex(d, t) == \E i \in 1..Len(d.index) : d.index[i] = Str(t)

\* df.loc[movie_title]
Loc(d, t) ==
    LET rows == {i \in 1..Len(d.index) : d.index[i] = Str(t)}
    IN  IF Cardinality(rows) = 1
        THEN [frame |-> FALSE, index |-> d.columns,
              values |-> d.cells[CHOOSE i \in rows : TRUE]]
        ELSE [frame |-> TRUE, index |-> d.columns, values |-> <<>>]

\* df[movie_title]
GetItem(d, t) ==
    LET j == CHOOSE j \in 1..Len(d.columns) : d.columns[j] = Str(t)
    IN  [frame |-> FALSE, index |-> d.index,
         values |-> [i \in 1..Len(d.index) |-> d.cells[i][j]]]

\* Where the sort of this build leaves position p among equal values: kind is
\* the default 'quicksort', which is not a stable sort.
TiePrio(p, n, build) == IF build.rev THEN n - p ELSE p

\* the positions p in the order of their ranks
InverseOf(rank) == [r \in DOMAIN rank |-> CHOOSE p \in DOMAIN rank : rank[p] = r]

\* Faulty variant of SortValues: ascending=True.
SortValuesAscending(series, build) ==
    LET n == Len(series.values)
        Before(p, q) ==
            \/ series.values[p] < series.values[q]
            \/ /\ series.values[p] = series.values[q]
               /\ TiePrio(p, n, build) < TiePrio(q, n, build)
    IN  InverseOf([p \in 1..n |-> Cardinality({q \in 1..n : Before(q, p)}) + 1])

\* Series.sort_values(ascending=False), as the positions of the series in
\* sorted order
SortValues(series, build) ==
    LET n == Len(series.values)
        Before(p, q) ==
            \/ series.values[p] > series.values[q]
            \/ /\ series.values[p] = series.values[q]
               /\ TiePrio(p, n, build) < TiePrio(q, n, build)
    IN  InverseOf([p \in 1..n |-> Cardinality({q \in 1..n : Before(q, p)}) + 1])

\* .head(n)
HeadOf(seq, n) == SubSeq(seq, 1, IF Len(seq) < n THEN Len(seq) ELSE n)

\* Faulty variant of SortValuesFrame: the row that .loc handed out is a view of
\* the frame and is sorted in place.
SortValuesInPlace(d, t, series, order) ==
    IF series.index = d.columns /\ \E i \in 1..Len(d.index) : d.index[i] = Str(t)
    THEN [d EXCEPT !.cells[CHOOSE i \in 1..Len(d.index) : d.index[i] = Str(t)] =
                       [r \in 1..Len(order) |-> series.values[order[r]]]]
    ELSE d

\* The frame after sort_values put the series in this order: inplace is left
\* False, a new Series is returned and the frame keeps its cells.
SortValuesFrame(d, t, series, order) == d

(***************************************************************************)
(* get_movie_recommendations.  The value returned is result; the other     *)
(* fields record what the call did: the title it matched (resolved), the   *)
(* similarity_scores it ranked (series), the positions of the result in    *)
(* that series (pos), whether st.warning reported an exception (warned)   *)
(* and the exception the call lets out to its caller (raises: every        *)
(* Exception is caught, so none), beside the frame as the call left it.    *)
(***************************************************************************)
Returned(d, res, ps, ser, t, m, w) ==
    [df |-> d,
     out |-> [result |-> res, pos |-> ps, series |-> ser, resolved |-> t,
              matched |-> m, warned |-> w, raises |-> "None"]]

\* return []
ReturnEmpty(d) == Returned(d, <<>>, <<>>, NoSeries, <<>>, FALSE, FALSE)

\* except Exception as e: st.warning(...); return []
ReturnAfterException(d, ser, t, m) == Returned(d, <<>>, <<>>, ser, t, m, TRUE)

\* Faulty variant of RecommendedMovies: the test name != movie_title left out.
RecommendedMoviesKeepSelf(series, similar, t) ==
    HeadOf(SelectSeq(similar, LAMBDA p : Strip(PyStr(series.index[p])) # <<>>), TopK)

\* [name for name in similar_movies.index
\*  if name != movie_title and str(name).strip()][:5], as positions of the series
RecommendedMovies(series, similar, t) ==
    HeadOf(SelectSeq(similar,
                     LAMBDA p : /\ series.index[p] # Str(t)
                                /\ Strip(PyStr(series.index[p])) # <<>>),
           TopK)

\* return recommended_movies
ReturnMovies(d, series, t, kept) ==
    Returned(d, [i \in 1..Len(kept) |-> series.index[kept[i]]], kept, series, t,
             TRUE, FALSE)

\* .head(6) of the sorted series and the list built from it
Ranked(d, t, series, order) ==
    ReturnMovies(SortValuesFrame(d, t, series, order), series, t,
                 RecommendedMovies(series, HeadOf(order, HeadN), t))

\* similar_movies = similarity_scores.sort_values(ascending=False).head(6)
\* and the list built from it.  The numpy branch under `else` is never taken:
\* a Series and a DataFrame both have sort_values.
TopSimilar(d, build, t, series) ==
    IF series.frame
    THEN ReturnAfterException(d, series, t, TRUE)  \* DataFrame.sort_values() needs by=
    ELSE Ranked(d, t, series, SortValues(series, build))

\* Faulty variant of PossibleMatch: the operands of `in` exchanged.
PossibleMatchSwapped(tl, label) == Contains(Lower(PyStr(label)), tl)

\* the labels that contain the title, whatever the case
PossibleMatch(tl, label) == Contains(tl, Lower(PyStr(label)))

HasMatch(labels, tl) == \E i \in 1..Len(labels) : PossibleMatch(tl, labels[i])

\* best_match = possible_matches[0]
BestMatch(labels, tl) ==
    labels[FirstTrue([i \in 1..Len(labels) |-> PossibleMatch(tl, labels[i])])]

RECURSIVE get_movie_recommendations(_, _, _, _)

\* the body of the try, movie_title stripped and, for Method 3, in lower case
Lookup(d, build, t, tl, depth) ==
    IF InColumns(d, t)
    THEN IF InIndex(d, t)
         THEN TopSimilar(d, build, t, Loc(d, t))
         ELSE TopSimilar(d, build, t, GetItem(d, t))
    ELSE IF InIndex(d, t)
    THEN TopSimilar(d, build, t, Loc(d, t))
    ELSE IF HasMatch(d.columns, tl)
    THEN get_movie_recommendations(d, build, BestMatch(d.columns, tl), depth + 1)
    ELSE IF HasMatch(d.index, tl)
    THEN get_movie_recommendations(d, build, BestMatch(d.index, tl), depth + 1)
    ELSE ReturnEmpty(d)

get_movie_recommendations(d, build, movie_title, depth) ==
    IF ~Truthy(movie_title) \/ IsNone(d)
    THEN ReturnEmpty(d)
    ELSE IF depth > RecursionLimit
    THEN ReturnAfterException(d, NoSeries, <<>>, FALSE)   \* RecursionError
    ELSE Lookup(d, build, Strip(PyStr(movie_title)), Lower(Strip(PyStr(movie_title))),
                depth)

(***************************************************************************)
(* The tables the model loads.  Each layout is the column headers and the  *)
(* row labels that read_csv(output, index_col=0) yields for one shape of   *)
(* CSV (duplicate headers come out mangled, "Ab" and "Ab.1"; duplicate row *)
(* labels are kept).  The cells of row i are the vector v turned by i - 1  *)
(* places, for every v: each row and each column ranges over every vector  *)
(* of scores, and rows carrying the same label differ unless v is flat.    *)
(* Scores are integers standing for the floats: only their order is read.  *)
(***************************************************************************)
A == <<"A">>
B == <<"B">>
C == <<"C">>
Ab == <<"A", "b">>
bAb == <<"b", "A", "b">>
Ab1 == <<"A", "b", ".", "1">>
APad == <<"A", " ">>
Blank == <<" ">>

StrLabels(ts) == [i \in 1..Len(ts) |-> Str(ts[i])]

Square(ts) == [columns |-> StrLabels(ts), index |-> StrLabels(ts)]

Clean3 == Square(<<A, B, C>>)
Case3 == Square(<<bAb, Ab, C>>)
Dup3 == [columns |-> StrLabels(<<Ab, Ab1, C>>), index |-> StrLabels(<<Ab, Ab, C>>)]
Pad3 == Square(<<A, APad, C>>)
Blank3 == Square(<<APad, Blank, C>>)
NumIndex3 == [columns |-> StrLabels(<<A, B, C>>),
              index |-> <<Num(<<"0">>), Num(<<"1">>), Num(<<"2">>)>>]
IndexOnly3 == [columns |-> StrLabels(<<<<"0">>, <<"1">>, <<"2">>>>),
               index |-> StrLabels(<<A, B, C>>)]
Rank7 == Square(<<A, B, C, <<"D">>, <<"E">>, <<"F">>, <<"G">>>>)

SmallLayouts == {Clean3, Case3, Dup3, Pad3, Blank3, NumIndex3, IndexOnly3}

Circulant(v, nr, nc) == [i \in 1..nr |-> [j \in 1..nc |-> v[((j - i) % nc) + 1]]]

TablesOf(layout, scores) ==
    {[columns |-> layout.columns, index |-> layout.index,
      cells |-> Circulant(v, Len(layout.index), Len(layout.columns))] :
        v \in [1..Len(layout.columns) -> scores]}

\* The three-title tables take every score, the seven-title table the lowest
\* and the highest.
Tables ==
    UNION {TablesOf(layout, 0..MaxScore) : layout \in SmallLayouts}
        \cup TablesOf(Rank7, {0, MaxScore})

\* The sort of the build keeps equal scores in table order, or reverses them.
SortBuilds == [rev : BOOLEAN]

\* The titles asked for: labels of the tables, the same in another case or
\* padded, parts of labels, the empty and the blank title, and a title of no table.
Queries ==
    {<<>>, Blank, A, B, C, <<"G">>, <<"a">>, <<"b">>, Ab, <<"a", "b">>, <<"A", "B">>,
     bAb, APad, <<" ", "A">>, Ab1, <<"0">>, <<"1">>, <<"Z">>}

(***************************************************************************)
(* initialize_data: the movie names taken from the frame.  index_name is   *)
(* df.index.name, the header of the first CSV column, or NoName when that  *)
(* header is empty.                                                        *)
(***************************************************************************)
OriginalTitle == <<"o", "r", "i", "g", "i", "n", "a", "l", "_", "t", "i", "t", "l", "e">>
NoName == <<>>
Nan == <<"n", "a", "n">>

\* df['original_title'].tolist()
ColumnToList(d, header) ==
    LET j == CHOOSE j \in 1..Len(d.columns) : d.columns[j] = Str(header)
    IN  [i \in 1..Len(d.index) |-> d.cells[i][j]]

\* names = [str(name) for name in names if str(name).strip() and str(name) != 'nan']
CleanNames(ns) ==
    LET kept == SelectSeq(ns, LAMBDA x : Strip(PyStr(x)) # <<>> /\ PyStr(x) # Nan)
    IN  [i \in 1..Len(kept) |-> PyStr(kept[i])]

\* return df, names
Initialized(d, ns, axis) == [df |-> d, names |-> CleanNames(ns), ok |-> TRUE, axis |-> axis]

\* return None, None
NotInitialized == [df |-> NoneFrame, names |-> <<>>, ok |-> FALSE, axis |-> "none"]

\* the branches of initialize_data once download_csv returned a frame
NamesOfFrame(d, index_name) ==
    IF InColumns(d, OriginalTitle)
    THEN Initialized(d, ColumnToList(d, OriginalTitle), "title column")
    ELSE IF index_name = OriginalTitle
    THEN Initialized(d, d.index, "title index")
    ELSE IF Len(d.columns) > 1
    THEN Initialized(d, d.columns, "columns")
    ELSE NotInitialized

\* initialize_data()
initialize_data(d, index_name) ==
    IF IsNone(d) THEN NotInitialized ELSE NamesOfFrame(d, index_name)

(***************************************************************************)
(* download_csv and the start of the script.  load.file is the local file  *)
(* cosine_similarity_matrix.csv: absent, smaller than 50 MB, or big with   *)
(* its content; load.depth counts the calls of download_csv that have not  *)
(* returned; cached is what st.cache_data keeps of the outermost call.     *)
(***************************************************************************)
Absent == [size |-> "absent", readable |-> FALSE, frame |-> NoneFrame, index_name |-> NoName]
Small == [size |-> "small", readable |-> FALSE, frame |-> NoneFrame, index_name |-> NoName]

\* a file of 50 MB or more that read_csv reads into this frame
Csv(frame, index_name) ==
    [size |-> "big", readable |-> TRUE, frame |-> frame, index_name |-> index_name]

\* a file of 50 MB or more on which read_csv raises
NotCsv == [size |-> "big", readable |-> FALSE, frame |-> NoneFrame, index_name |-> NoName]

\* the script past line 423 with this frame loaded from this file
Running(file, axis) ==
    [pc |-> "main", file |-> file, depth |-> 0, index_name |-> file.index_name,
     axis |-> axis, overflow |-> FALSE]

\* return None from whatever depth: every caller returns what its callee returned
ReturnNone(file) ==
    [pc |-> "initialize", file |-> file, depth |-> 0, index_name |-> NoName,
     axis |-> "none", overflow |-> load.overflow]

\* the download: gdown first, the requests fallback when it fails
DownloadOutcomes(files) == files \cup {Small, Absent}

\* lines 158-357: the file is absent and the download is tried.  gdown's file
\* is kept only above 50 MB; the fallback writes whatever it receives; when
\* both raise the partial file is removed and None returned.
Download(written) ==
    /\ load.pc = "download"
    /\ load.file.size = "absent"
    /\ load' = IF written.size = "absent"
               THEN ReturnNone(Absent)
               ELSE [load EXCEPT !.pc = "verify", !.file = written]
    /\ cached' = NoneFrame
    /\ UNCHANGED <<df, sortBuild, call, earlier, names, fetch, session>>

\* return download_csv(): the call goes through the st.cache_data wrapper
\* while the outer call is still computing the same key.  The wrapper either
\* waits for that computation (for ever) or runs the function again; a call
\* deeper than the stack allows raises RecursionError, caught at line 377.
Retry(reentered) ==
    IF ~reentered
    THEN [load EXCEPT !.pc = "blocked", !.file = Absent]
    ELSE IF load.depth + 1 > RecursionLimit
    THEN [ReturnNone(Absent) EXCEPT !.overflow = TRUE]
    ELSE [load EXCEPT !.pc = "download", !.file = Absent, !.depth = @ + 1]

\* lines 360-382: the file exists: too small, removed and retried; else read
Verify(reentered) ==
    /\ load.pc = "verify"
    /\ load.file.size # "absent"
    /\ IF load.file.size = "small"
       THEN /\ load' = Retry(reentered)
            /\ cached' = NoneFrame
       ELSE IF load.file.readable
       THEN /\ load' = [load EXCEPT !.pc = "initialize", !.depth = 0,
                                    !.index_name = load.file.index_name]
            /\ cached' = load.file.frame
       ELSE /\ load' = ReturnNone(Absent)
            /\ cached' = NoneFrame
    /\ UNCHANGED <<df, sortBuild, call, earlier, names, fetch, session>>

\* Faulty variant of NextLine: the script goes on without a frame.
NextLineNoStop(ok) == "main"

\* lines 420-423: df, names = data_init, or st.stop()
NextLine(ok) == IF ok THEN "main" ELSE "stopped"

\* data_init = initialize_data() with what download_csv returned, and the
\* lines after it
Initialize ==
    /\ load.pc = "initialize"
    /\ \E data_init \in {initialize_data(cached, load.index_name)} :
           /\ load' = [load EXCEPT !.pc = NextLine(data_init.ok), !.axis = data_init.axis]
           /\ df' = data_init.df
           /\ names' = data_init.names
    /\ UNCHANGED <<cached, sortBuild, call, earlier, fetch, session>>

\* a rerun of the script: download_csv answers from the cache, None included
RerunScript ==
    /\ load.pc \in {"main", "stopped"}
    /\ load' = [load EXCEPT !.pc = "initialize"]
    /\ UNCHANGED <<cached, df, sortBuild, call, earlier, names, fetch, session>>

(***************************************************************************)
(* State: the frame that st.cache_data keeps for download_csv (cached),    *)
(* the module's df bound to a copy of it, the sort of the build, and the   *)
(* last call of get_movie_recommendations with what it returned.  earlier  *)
(* is a call made before it, kept to compare the two, with the number of   *)
(* calls made since.                                                       *)
(***************************************************************************)
\* nothing rendered yet
NoView == [kind |-> "none", back |-> FALSE, previous |-> FALSE, next |-> FALSE,
           movies |-> {}, total_pages |-> 0]

\* a session before the first run of the script: st.session_state is empty,
\* the slider at its default, the search box empty
NoSession == [page |-> 0, clicked_movie |-> 0, movies_per_page |-> SliderDefault,
              search_query |-> 0, provider |-> "200 results", view |-> NoView]

\* fetch_movie_data not called
NoFetch == [pc |-> "idle", start |-> 0, end |-> 0, requests |-> 0, failed_requests |-> 0,
            before |-> 0, movies |-> <<>>, response |-> "none"]

NoEarlier == [made |-> FALSE, title |-> <<>>, result |-> <<>>, later |-> 0]

\* one more call made after the one that is kept
Later(e) == IF e.made /\ e.later < MaxLater THEN [e EXCEPT !.later = @ + 1] ELSE e

Init ==
    /\ cached \in Tables
    /\ df = cached
    /\ sortBuild \in SortBuilds
    /\ call = [made |-> FALSE, title |-> <<>>, ret |-> ReturnEmpty(df).out]
    /\ earlier = NoEarlier
    /\ names = initialize_data(df, NoName).names
    /\ fetch = NoFetch
    /\ session = NoSession
    /\ load = Running(Csv(cached, NoName), initialize_data(df, NoName).axis)

\* Faulty variant of Call: the sort breaks ties the other way after every call.
CallFlipping(movie_title_for_search) ==
    \E ret \in {get_movie_recommendations(df, sortBuild, Str(movie_title_for_search), 1)} :
        /\ load.pc = "main"
        /\ call' = [made |-> TRUE, title |-> movie_title_for_search, ret |-> ret.out]
        /\ df' = ret.df
        /\ sortBuild' = [rev |-> ~sortBuild.rev]
        /\ UNCHANGED <<cached, names, fetch, load>>

\* get_movie_recommendations(movie_title_for_search) and what it leaves behind
Call(movie_title_for_search) ==
    \E ret \in {get_movie_recommendations(df, sortBuild, Str(movie_title_for_search), 1)} :
        /\ load.pc = "main"
        /\ call' = [made |-> TRUE, title |-> movie_title_for_search, ret |-> ret.out]
        /\ df' = ret.df
        /\ UNCHANGED <<cached, sortBuild, names, fetch, load>>

\* recommended_movies = get_movie_recommendations(movie_title_for_search)
Recommend(movie_title_for_search) ==
    /\ Call(movie_title_for_search)
    /\ earlier' = Later(earlier)
    /\ UNCHANGED session

\* A rerun of the script: initialize_data() gets from the cache of download_csv
\* a copy of the frame it keeps, and df is bound to it.
Rerun ==
    /\ df' = cached
    /\ UNCHANGED <<cached, sortBuild, call, earlier, names, fetch, load, session>>

Next ==
    \/ \E q \in Queries : Recommend(q)
    \/ Rerun

Spec == Init /\ [][Next]_vars

(***************************************************************************)
(* The same calls with one of them kept: RecommendKept is a call whose     *)
(* title and result are kept, to be compared with a later call for the     *)
(* same title.                                                             *)
(***************************************************************************)
TwiceTables ==
    UNION {TablesOf(layout, 0..MaxScore) : layout \in {Clean3, Case3, Dup3, Blank3}}

TwiceQueries == {A, <<"a">>, <<"A", "B">>, APad, <<"Z">>}

InitTwice ==
    /\ cached \in TwiceTables
    /\ df = cached
    /\ sortBuild \in SortBuilds
    /\ call = [made |-> FALSE, title |-> <<>>, ret |-> ReturnEmpty(df).out]
    /\ earlier = NoEarlier
    /\ names = initialize_data(df, NoName).names
    /\ fetch = NoFetch
    /\ session = NoSession
    /\ load = Running(Csv(cached, NoName), initialize_data(df, NoName).axis)

RecommendKept(movie_title_for_search) ==
    /\ Call(movie_title_for_search)
    /\ earlier' = [made |-> TRUE, title |-> movie_title_for_search,
                   result |-> call'.ret.result, later |-> 0]
    /\ UNCHANGED session

NextTwice ==
    \/ \E q \in TwiceQueries : RecommendKept(q)
    \/ \E q \in TwiceQueries : Recommend(q)
    \/ Rerun

SpecTwice == InitTwice /\ [][NextTwice]_vars

(***************************************************************************)
(* The start of the script on its own: the local file and the remote one   *)
(* range over the shapes of CSV below, and queries are served once the     *)
(* script is past its initialization.                                      *)
(***************************************************************************)
Digits3 == <<<<"0">>, <<"1">>, <<"2">>>>
Nums3 == <<Num(<<"0">>), Num(<<"1">>), Num(<<"2">>)>>

\* numeric headers and an integer first column
BothNum3 == [columns |-> StrLabels(Digits3), index |-> Nums3]

\* titles in the first column and a single column of numbers beside it
OneColumn3 == [columns |-> StrLabels(<<B>>), index |-> StrLabels(<<A, B, C>>)]

\* the frame of a layout with MaxScore in the first cell of the turned vector
FrameOf(layout) ==
    [columns |-> layout.columns, index |-> layout.index,
     cells |-> Circulant([j \in 1..Len(layout.columns) |-> IF j = 1 THEN MaxScore ELSE 0],
                         Len(layout.index), Len(layout.columns))]

\* a column original_title holding the titles, "nan" where the CSV has none,
\* beside two columns of numbers
TitleColumn3 ==
    [columns |-> StrLabels(<<OriginalTitle, <<"0">>, <<"1">>>>),
     index |-> Nums3,
     cells |-> <<<<Str(A), MaxScore, 0>>, <<Str(Nan), 0, MaxScore>>, <<Str(C), 0, 0>>>>]

LoadFiles ==
    {Csv(FrameOf(Clean3), NoName), Csv(FrameOf(IndexOnly3), NoName),
     Csv(FrameOf(IndexOnly3), OriginalTitle), Csv(FrameOf(NumIndex3), NoName),
     Csv(FrameOf(BothNum3), NoName), Csv(FrameOf(OneColumn3), NoName),
     Csv(TitleColumn3, NoName), NotCsv}

LoadQueries == {B, <<"0">>, <<"Z">>}

InitLoad ==
    /\ \E file \in DownloadOutcomes(LoadFiles) :
           load = [pc |-> IF file.size = "absent" THEN "download" ELSE "verify",
                   file |-> file, depth |-> 1, index_name |-> NoName,
                   axis |-> "none", overflow |-> FALSE]
    /\ cached = NoneFrame
    /\ df = NoneFrame
    /\ names = <<>>
    /\ sortBuild \in SortBuilds
    /\ call = [made |-> FALSE, title |-> <<>>, ret |-> ReturnEmpty(df).out]
    /\ earlier = NoEarlier
    /\ fetch = NoFetch
    /\ session = NoSession

NextLoad ==
    \/ \E written \in DownloadOutcomes(LoadFiles) : Download(written)
    \/ \E reentered \in BOOLEAN : Verify(reentered)
    \/ Initialize
    \/ RerunScript
    \/ \E q \in LoadQueries : Recommend(q)

SpecLoad == InitLoad /\ [][NextLoad]_vars

(***************************************************************************)
(* fetch_movie_data(start, end): one request per title of names[start:end] *)
(* and one action per answer of the metadata provider.  fetch.requests is  *)
(* the number of requests issued, fetch.movies the positions in names of   *)
(* the titles whose first result was appended, fetch.response the last     *)
(* answer and fetch.before the value of failed_requests before it.         *)
(***************************************************************************)
\* the values of the slider of main
SliderValues == {v \in SliderMin..MaxPerPage : (v - SliderMin) % SliderStep = 0}

\* len(names[start:end])
SliceLen(ns, start, end) ==
    LET stop == IF end < Len(ns) THEN end ELSE Len(ns)
    IN  IF stop > start THEN stop - start ELSE 0

\* status 200 and a body with results, with an empty list of results, or one
\* that response.json() or data['results'] cannot read
Status200 == {"200 results", "200 empty", "200 unreadable"}

\* the answers that end in an except clause or in the else of the status test
Failures == {"non-200", "Timeout", "Exception", "200 unreadable"}

Responses == Status200 \cup Failures

\* Faulty variant of TooMany: the loop is never left early.
TooManyNever(failed_requests) == FALSE

\* if failed_requests > max_failures: break
TooMany(failed_requests) == failed_requests > max_failures

\* movies = fetch_movie_data(start_index, end_index), up to the loop
FetchCall(page, movies_per_page) ==
    /\ fetch.pc \in {"idle", "returned"}
    /\ fetch' = [NoFetch EXCEPT !.pc = "loop",
                                !.start = (page - 1) * movies_per_page,
                                !.end = (page - 1) * movies_per_page + movies_per_page]
    /\ UNCHANGED <<cached, df, sortBuild, call, earlier, names, load, session>>

\* status 200 and data read: the first result appended if there is one,
\* failed_requests = 0
Succeeded(response) ==
    [fetch EXCEPT !.requests = @ + 1,
                  !.response = response,
                  !.before = fetch.failed_requests,
                  !.failed_requests = 0,
                  !.movies = IF response = "200 results"
                             THEN Append(@, fetch.start + fetch.requests + 1)
                             ELSE @]

\* failed_requests += 1, then break or the next title
Failed(response) ==
    [fetch EXCEPT !.requests = @ + 1,
                  !.response = response,
                  !.before = fetch.failed_requests,
                  !.failed_requests = @ + 1,
                  !.pc = IF TooMany(fetch.failed_requests + 1) THEN "returned" ELSE "loop"]

\* one turn of the loop: requests.get for the next title and what follows
Request(response) ==
    /\ fetch.pc = "loop"
    /\ fetch.requests < SliceLen(names, fetch.start, fetch.end)
    /\ fetch' = IF response \in Failures THEN Failed(response) ELSE Succeeded(response)
    /\ UNCHANGED <<cached, df, sortBuild, call, earlier, names, load, session>>

\* the loop ran out of titles: return movies
FetchReturn ==
    /\ fetch.pc = "loop"
    /\ fetch.requests >= SliceLen(names, fetch.start, fetch.end)
    /\ fetch' = [fetch EXCEPT !.pc = "returned"]
    /\ UNCHANGED <<cached, df, sortBuild, call, earlier, names, load, session>>

FetchTables == TablesOf(Rank7, {0})

InitFetch ==
    /\ cached \in FetchTables
    /\ df = cached
    /\ sortBuild \in SortBuilds
    /\ call = [made |-> FALSE, title |-> <<>>, ret |-> ReturnEmpty(df).out]
    /\ earlier = NoEarlier
    /\ names = initialize_data(df, NoName).names
    /\ fetch = NoFetch
    /\ session = NoSession
    /\ load = Running(Csv(cached, NoName), initialize_data(df, NoName).axis)

NextFetch ==
    \/ \E page \in 1..MaxPage, movies_per_page \in SliderValues :
           FetchCall(page, movies_per_page)
    \/ \E response \in Responses : Request(response)
    \/ FetchReturn

SpecFetch == InitFetch /\ [][NextFetch]_vars

(***************************************************************************)
(* main: one run of the script for one session.  session.page and          *)
(* session.clicked_movie are st.session_state (0 for an absent page and    *)
(* for None; a clicked movie is the position of its title in names),       *)
(* movies_per_page and search_query the widgets (0 for an empty search     *)
(* box), provider what the metadata provider answers for the time being,   *)
(* and view what the last run put on the page: the buttons it offered.     *)
(***************************************************************************)
\* total_pages = (total_movies + movies_per_page - 1) // movies_per_page
TotalPages(total_movies, movies_per_page) ==
    (total_movies + movies_per_page - 1) \div movies_per_page

\* lines 690-719: the search box is filled, the run ends at its return
SearchView(s) == [s EXCEPT !.view = [NoView EXCEPT !.kind = "search"]]

\* if 'page' not in st.session_state: st.session_state.page = 1
WithPage(s) == IF s.page = 0 THEN [s EXCEPT !.page = 1] ELSE s

\* lines 740-767: clicked_movie is set.  The card and the Back button are
\* drawn only for status 200 with results.
DetailView(s) ==
    [s EXCEPT !.view = [NoView EXCEPT !.kind = "detail",
                                     !.back = (s.provider = "200 results")]]

\* movies = fetch_movie_data(start_index, end_index) while the provider
\* answers every title the same way: every title of the slice, or none
Fetched(s) ==
    IF s.provider = "200 results"
    THEN {i \in 1..Len(names) : /\ i > (s.page - 1) * s.movies_per_page
                                /\ i <= (s.page - 1) * s.movies_per_page + s.movies_per_page}
    ELSE {}

\* lines 769-826: the page of movies with its buttons
BrowseView(s) ==
    [s EXCEPT !.view = [kind |-> "browse", back |-> FALSE,
                        previous |-> s.page > 1,
                        next |-> s.page * s.movies_per_page < Len(names),
                        movies |-> Fetched(s),
                        total_pages |-> TotalPages(Len(names), s.movies_per_page)]]

\* a run of the script in which no button is pressed
Render(s) ==
    IF s.search_query # 0
    THEN SearchView(s)
    ELSE IF WithPage(s).clicked_movie # 0
    THEN DetailView(WithPage(s))
    ELSE BrowseView(WithPage(s))

NoButton == [button |-> "none", movie |-> 0]

\* what the pressed button does when the run reaches it; a button the run
\* does not draw does nothing
Handled(s, pressed) ==
    IF s.search_query # 0
    THEN s
    ELSE IF s.clicked_movie # 0
    THEN IF pressed.button = "back" /\ DetailView(s).view.back
         THEN [s EXCEPT !.clicked_movie = 0]
         ELSE s
    ELSE IF pressed.button = "recommend" /\ pressed.movie \in BrowseView(s).view.movies
    THEN [s EXCEPT !.clicked_movie = pressed.movie]
    ELSE IF pressed.button = "previous" /\ BrowseView(s).view.previous
    THEN [s EXCEPT !.page = @ - 1]
    ELSE IF pressed.button = "next" /\ BrowseView(s).view.next
    THEN [s EXCEPT !.page = @ + 1]
    ELSE s

\* the run in which the button is pressed and, when its handler calls
\* st.rerun(), the run that follows
Run(s, pressed) ==
    IF s.search_query # 0
    THEN Render(s)
    ELSE Render(Handled(WithPage(s), pressed))

\* display_movie_card(movie, show_recommendations=True) of the run that drew
\* the page: the search result, or the clicked movie, under the title the
\* provider gives, which is the title asked for
ShowsCard(s) ==
    /\ s.provider = "200 results"
    /\ s.view.kind \in {"search", "detail"}

CardTitle(s) == names[IF s.search_query # 0 THEN s.search_query ELSE s.clicked_movie]

\* a run of the script, the run that follows it after st.rerun(), and the
\* last call of get_movie_recommendations in them: the card of the page that
\* is left on the screen, or else the card drawn above a pressed Back button
Script(pressed, widgets) ==
    /\ load.pc = "main"
    /\ session' = Run(widgets, pressed)
    /\ IF ShowsCard(session')
       THEN Call(CardTitle(session'))
       ELSE IF ShowsCard(Render(widgets))
       THEN Call(CardTitle(Render(widgets)))
       ELSE UNCHANGED <<cached, df, sortBuild, call, names, fetch, load>>
    /\ UNCHANGED earlier

\* the first run of a session
Open ==
    /\ session.view.kind = "none"
    /\ Script(NoButton, session)

\* the slider is moved
Slide(movies_per_page) ==
    /\ session.view.kind # "none"
    /\ movies_per_page # session.movies_per_page
    /\ Script(NoButton, [session EXCEPT !.movies_per_page = movies_per_page])

\* a title is typed into the search box, or the box is emptied
Search(search_query) ==
    /\ session.view.kind # "none"
    /\ search_query # session.search_query
    /\ Script(NoButton, [session EXCEPT !.search_query = search_query])

\* one of the buttons on the page is pressed
ClickBack ==
    /\ session.view.back
    /\ Script([button |-> "back", movie |-> 0], session)

ClickPrevious ==
    /\ session.view.previous
    /\ Script([button |-> "previous", movie |-> 0], session)

ClickNext ==
    /\ session.view.next
    /\ Script([button |-> "next", movie |-> 0], session)

ClickRecommend(movie) ==
    /\ movie \in session.view.movies
    /\ Script([button |-> "recommend", movie |-> movie], session)

\* the metadata provider starts to answer otherwise
ProviderAnswers(response) ==
    /\ response # session.provider
    /\ session' = [session EXCEPT !.provider = response]
    /\ UNCHANGED <<cached, df, sortBuild, call, earlier, names, fetch, load>>

InitSession ==
    /\ cached \in FetchTables
    /\ df = cached
    /\ sortBuild \in SortBuilds
    /\ call = [made |-> FALSE, title |-> <<>>, ret |-> ReturnEmpty(df).out]
    /\ earlier = NoEarlier
    /\ names = initialize_data(df, NoName).names
    /\ fetch = NoFetch
    /\ load = Running(Csv(cached, NoName), initialize_data(df, NoName).axis)
    /\ session = NoSession

NextSession ==
    \/ Open
    \/ \E movies_per_page \in SliderValues : Slide(movies_per_page)
    \/ \E search_query \in 0..1 : Search(search_query)
    \/ ClickBack
    \/ ClickPrevious
    \/ ClickNext
    \/ \E movie \in 1..Len(names) : ClickRecommend(movie)
    \/ \E response \in Responses : ProviderAnswers(response)

SpecSession == InitSession /\ [][NextSession]_vars

(***************************************************************************)
(* The claims.                                                             *)
(***************************************************************************)
Min(a, b) == IF a < b THEN a ELSE b

Result == call.ret.result
Series == call.ret.series
Pos == call.ret.pos
Resolved == call.ret.resolved

\* the score of the i-th recommendation
ScoreAt(i) == Series.values[Pos[i]]

\* a label that is a title: initialize_data and the list comprehension both
\* drop the labels that are blank
IsTitle(label) == Strip(PyStr(label)) # <<>>

\* the positions of the ranked series that are not in the result
LeftOut == {p \in 1..Len(Series.index) : \A i \in 1..Len(Pos) : Pos[i] # p}

C2_TopKDescending ==
    call.made =>
        /\ Len(Result) <= TopK
        /\ \A i \in 1..(Len(Result) - 1) : ScoreAt(i) >= ScoreAt(i + 1)
        /\ \A i \in 1..Len(Result) :
               \A p \in LeftOut :
                   IsTitle(Series.index[p]) /\ Series.index[p] # Str(Resolved)
                       => Series.values[p] <= ScoreAt(i)

\* C2 witness: TopK entries returned, the first scoring above the last, and a
\* title other than the query left out.
C2_Witness ==
    /\ call.made /\ Len(Result) = TopK
    /\ ScoreAt(1) > ScoreAt(TopK)
    /\ \E p \in LeftOut : Series.index[p] # Str(Resolved)

\* the labels of the table in its order: column headers, then row labels
Labels == df.columns \o df.index

\* the titles ranked by the call other than the resolved one
NonSelf == {p \in 1..Len(Series.index) :
                IsTitle(Series.index[p]) /\ Series.index[p] # Str(Resolved)}

\* C3 as stated: a matched title gets exactly min(k, number of titles other
\* than itself) recommendations, k being TopK.
C3_ExactLength ==
    call.made /\ call.ret.matched => Len(Result) = Min(TopK, Cardinality(NonSelf))

\* no label of the table contains t, whatever the case
Unmatched(t) == \A i \in 1..Len(Labels) : ~Contains(Lower(t), Lower(PyStr(Labels[i])))

\* the call returned the empty list and reported no error
EmptyNoError ==
    Result = <<>> /\ ~call.ret.matched /\ ~call.ret.warned /\ call.ret.raises = "None"

\* C4 as stated: a title (not a blank one) that is no label and no
\* case-insensitive substring of a label gets the empty result, and no error is
\* raised or reported.
C4_UnmatchedEmpty ==
    call.made /\ Strip(call.title) # <<>> /\ Unmatched(call.title) => EmptyNoError

\* C4 as amended: a title that, stripped of surrounding whitespace, is no label
\* and no case-insensitive substring of a label gets the empty result, and no
\* error is raised or reported.
C4_UnmatchedCleanedEmpty == call.made /\ Unmatched(Strip(call.title)) => EmptyNoError

\* C4 witness: a call with a title in no label of the table.
C4_Witness == call.made /\ call.title # <<>> /\ Unmatched(Strip(call.title))

\* what a direct call for this label returns
ResultFor(label) == get_movie_recommendations(df, sortBuild, label, 1).out.result

IsLabel(t) == \E i \in 1..Len(Labels) : Labels[i] = Str(t)

SameButCase(t, label) == ~label.num /\ Lower(PyStr(label)) = Lower(t)

HasSameButCase(t) == \E i \in 1..Len(Labels) : SameButCase(t, Labels[i])

\* the first label of the table that is t but for the case
FirstSameButCase(t) ==
    Labels[FirstTrue([i \in 1..Len(Labels) |-> SameButCase(t, Labels[i])])]

\* C5 as stated: a title that is no label but differs from a label only in
\* letter case gets the result of that label.
C5_CaseInsensitiveSame ==
    /\ call.made /\ ~IsLabel(call.title)
    /\ HasSameButCase(call.title)
    => Result = ResultFor(FirstSameButCase(call.title))

\* the rows labelled t
RowsOf(t) == {i \in 1..Len(df.index) : df.index[i] = Str(t)}

FirstRow(t) == CHOOSE i \in RowsOf(t) : \A k \in RowsOf(t) : i <= k

FirstRowSeries(t) == [frame |-> FALSE, index |-> df.columns, values |-> df.cells[FirstRow(t)]]

\* C6 as stated: for a title that labels two rows the call does not abort and
\* ranks the score vector of the first of them.
C6_DuplicateUsesFirst ==
    call.made /\ Cardinality(RowsOf(call.title)) > 1 =>
        /\ call.ret.raises = "None"
        /\ Series = FirstRowSeries(call.title)
        /\ Result = Ranked(df, call.title, Series, SortValues(Series, sortBuild)).out.result

Within(t, label) == Contains(Lower(t), Lower(PyStr(label)))

\* some label contains t, whatever the case
PolicyMatches(t) == \E i \in 1..Len(Labels) : Within(t, Labels[i])

\* the label the three steps of the matching policy choose for t
PolicyLabel(t) ==
    IF IsLabel(t)
    THEN Str(t)
    ELSE IF HasSameButCase(t)
    THEN FirstSameButCase(t)
    ELSE Labels[FirstTrue([i \in 1..Len(Labels) |-> Within(t, Labels[i])])]

\* every label of the table is a str without surrounding whitespace
CleanLabels == \A i \in 1..Len(Labels) : ~Labels[i].num /\ Strip(Labels[i].s) = Labels[i].s

\* C7 as stated, for a table of clean labels and a title without surrounding
\* whitespace: the title is resolved by the first of exact match,
\* case-insensitive exact match and case-insensitive substring match (first
\* label in table order) that finds a label, and that label is the one ranked.
C7_FallbackOrder ==
    call.made /\ CleanLabels /\ call.title # <<>> /\ Strip(call.title) = call.title =>
        IF PolicyMatches(call.title)
        THEN call.ret.matched /\ Str(Resolved) = PolicyLabel(call.title)
        ELSE ~call.ret.matched

\* C8 as stated: of two titles with equal scores the one earlier in table order
\* comes first in the result, and is the one kept when only one is returned.
C8_StableTies ==
    call.made =>
        /\ \A i, j \in 1..Len(Result) :
               i < j /\ ScoreAt(i) = ScoreAt(j) => Pos[i] < Pos[j]
        /\ \A i \in 1..Len(Result) :
               \A p \in LeftOut \cap NonSelf :
                   Series.values[p] = ScoreAt(i) => Pos[i] < p

\* C9 as stated: a call with a malformed title (empty, or blank) is rejected
\* with InvalidArgument.
C9_InvalidArgument ==
    call.made /\ Strip(call.title) = <<>> => call.ret.raises = "InvalidArgument"

\* C10: no call changes the loaded table, and no rerun binds df to another one:
\* its labels and its cells are after every step what they were before it.
C10_TableReadOnly == [][df' = df]_vars

\* C10 witness: a call that took a row of the table, sorted it and returned
\* titles that are not in table order.
C10_Witness ==
    /\ call.made /\ call.ret.matched /\ Len(Result) > 1
    /\ Series.index = df.columns
    /\ Pos[1] > Pos[2]

\* a label that reads as a number: an int, or a str of digits
IsNumeric(label) ==
    \/ label.num
    \/ label.s # <<>> /\ \A i \in 1..Len(label.s) : label.s[i] \in {"0", "1", "2"}

\* an axis that can carry the titles: no label of it is numeric and it has as
\* many distinct labels as it has labels
Qualifies(axis) ==
    /\ Len(axis) > 0
    /\ \A i \in 1..Len(axis) : ~IsNumeric(axis[i])
    /\ Cardinality({axis[i] : i \in 1..Len(axis)}) = Len(axis)

\* initialize_data has run on a frame that download_csv returned
Resolved11 == load.pc \in {"main", "stopped"} /\ ~IsNone(cached)

\* C11 as stated: the title axis is the original_title column when the frame
\* has one, else the index when it is named original_title; else the column
\* headers or the row index, and only an axis that is non-numeric with as many
\* distinct labels as labels; when one of the two qualifies the load succeeds,
\* and when none does it fails and the script stops.
C11_AxisPolicy ==
    Resolved11 =>
        IF InColumns(cached, OriginalTitle)
        THEN load.axis = "title column"
        ELSE IF load.index_name = OriginalTitle
        THEN load.axis = "title index"
        ELSE /\ load.axis \in {"columns", "index", "none"}
             /\ load.axis = "columns" => Qualifies(cached.columns)
             /\ load.axis = "index" => Qualifies(cached.index)
             /\ Qualifies(cached.columns) \/ Qualifies(cached.index) => load.axis # "none"
             /\ load.axis = "none" => load.pc = "stopped"

\* C12: a query is served only when download_csv returned a frame and
\* initialize_data produced the title list from it, and once the script has
\* stopped on a failed load no query is served, in that run and in the reruns.
C12_LoadFailureFatal ==
    /\ call.made => ~IsNone(cached) /\ ~IsNone(df) /\ load.axis # "none"
    /\ IsNone(cached) /\ load.pc \in {"initialize", "stopped", "main"} => ~call.made
    /\ load.pc = "stopped" => ~call.made /\ IsNone(df)

\* C12 witness: a frame was read but initialize_data found no names in it, and
\* the script stopped.
C12_Witness == load.pc = "stopped" /\ ~IsNone(cached) /\ load.axis = "none"

\* C14 as stated: download_csv does not wait without end and does not retry
\* until the stack is exhausted: it returns after a number of retries that its
\* own code bounds.
C14_DownloadReturns == load.pc # "blocked" /\ ~load.overflow

\* C16 as stated: once the script has run, the page cursor is at least 1 and
\* at most total_pages, whatever was clicked and wherever the slider was moved.
C16_PageInRange ==
    session.page # 0 =>
        /\ 1 <= session.page
        /\ session.page <= TotalPages(Len(names), session.movies_per_page)

\* C17 as stated: a run that finds clicked_movie set offers the Back button,
\* whatever the provider answers.
C17_BackOffered ==
    session.view.kind = "detail" /\ session.clicked_movie # 0 => session.view.back

\* C13: a call for the title of an earlier call returns the list the earlier
\* call returned, same titles in the same order, whatever calls and reruns
\* came between the two.
C13_SameArgsSameResult ==
    call.made /\ earlier.made /\ call.title = earlier.title => Result = earlier.result

\* C13 witness: the second call after the kept one is for the same title and
\* returns two titles of equal score.
C13_Witness ==
    /\ call.made /\ earlier.made /\ earlier.later = 2
    /\ call.title = earlier.title
    /\ Len(Result) > 1 /\ ScoreAt(1) = ScoreAt(2)

\* the title of the call, stripped and in lower case, as Method 3 compares it
CallTitle == Strip(call.title)
CallTitleLower == Lower(Strip(call.title))

\* the call reaches Method 3 and finds a label there
TakesFallback ==
    /\ call.made /\ call.title # <<>>
    /\ ~InColumns(df, CallTitle) /\ ~InIndex(df, CallTitle)
    /\ HasMatch(df.columns, CallTitleLower) \/ HasMatch(df.index, CallTitleLower)

\* possible_matches[0] of that call
FallbackLabel ==
    IF HasMatch(df.columns, CallTitleLower)
    THEN BestMatch(df.columns, CallTitleLower)
    ELSE BestMatch(df.index, CallTitleLower)

\* C15 as stated: the label the substring fallback picks is resolved by an
\* exact match in the recursive call, which ranks it, so the fallback is not
\* entered a second time.
C15_FallbackOnce ==
    TakesFallback =>
        /\ \/ InColumns(df, Strip(PyStr(FallbackLabel)))
           \/ InIndex(df, Strip(PyStr(FallbackLabel)))
        /\ call.ret.matched
        /\ Resolved = Strip(PyStr(FallbackLabel))

\* a request was answered in this call
Answered == fetch.pc # "idle" /\ fetch.response # "none"

\* what C18 says whatever the reading of "status-200 response": a failure
\* increments the counter, the counter never exceeds max_failures + 1, no
\* request follows once it exceeds max_failures, and the list returned has at
\* most end - start movies in the order of the title list.
FetchBounded ==
    /\ Answered /\ fetch.response \notin Status200
           => fetch.failed_requests = fetch.before + 1
    /\ fetch.failed_requests <= max_failures + 1
    /\ fetch.failed_requests > max_failures => fetch.pc = "returned"
    /\ Len(fetch.movies) <= fetch.end - fetch.start
    /\ \A i \in 1..Len(fetch.movies) :
           /\ fetch.movies[i] \in (fetch.start + 1)..fetch.end
           /\ fetch.movies[i] <= Len(names)
           /\ i > 1 => fetch.movies[i - 1] < fetch.movies[i]

\* C18 as stated: every status-200 response resets the failure counter to 0,
\* every non-200 response, timeout or other exception increments it, it never
\* exceeds 6, no request follows once it exceeds max_failures, and the list has
\* at most end - start movies in the order of the title list.
C18_Status200Resets ==
    /\ FetchBounded
    /\ Answered /\ fetch.response \in Status200 => fetch.failed_requests = 0

\* C18 as amended: a status-200 response whose body is read resets the counter;
\* one whose body cannot be read raises and increments it as the other
\* failures do.
C18_ReadResponseResets ==
    /\ FetchBounded
    /\ Answered /\ fetch.response \in Status200 \ Failures => fetch.failed_requests = 0
    /\ Answered /\ fetch.response \in Failures => fetch.failed_requests = fetch.before + 1

\* C18 witness: a call that left the loop on the sixth failure in a row, the
\* last of them a timeout, with a title of the slice not yet asked for.
C18_Witness ==
    /\ fetch.pc = "returned" /\ fetch.failed_requests = max_failures + 1
    /\ fetch.response = "Timeout"
    /\ fetch.requests < SliceLen(names, fetch.start, fetch.end)

====
